---------------------------- MODULE Spec2Model ----------------------------
(***************************************************************************)
(* flatcat: flattening a directory tree into one Markdown document.        *)
(*                                                                         *)
(* The model follows src/flatcat/stitcher.py (write_markdown and its       *)
(* helpers), src/flatcat/tree.py (build_ascii_tree) and the last lines of  *)
(* main in src/flatcat/cli.py.  File names and glob patterns are sequences *)
(* of one-character strings, so that suffix extraction, fnmatch, path      *)
(* joining and string comparison are computed, not assumed.  A relative    *)
(* path is the sequence of its names; the root is the empty sequence.      *)
(***************************************************************************)
EXTENDS Integers, Sequences, FiniteSets, TLC

(***************************************************************************)
(* Characters and strings                                                  *)
(***************************************************************************)

\* The characters the model's names and patterns use, in code point order.
Alphabet ==
    << "*", ".", "/", "a", "b", "d", "e", "i", "k", "l", "o", "p", "s",
       "t", "u", "x", "y" >>

\* Position of a character in code point order (Python compares str by code point).
Ord(c) == CHOOSE i \in 1..Len(Alphabet) : Alphabet[i] = c

\* s < t for Python str: lexicographic by code point, a proper prefix is smaller.
RECURSIVE StrLess(_, _)
StrLess(s, t) ==
    IF t = << >> THEN FALSE
    ELSE IF s = << >> THEN TRUE
    ELSE IF Head(s) = Head(t) THEN StrLess(Tail(s), Tail(t))
    ELSE Ord(Head(s)) < Ord(Head(t))

\* "/".join(parts): PurePath.as_posix of a relative path.
RECURSIVE as_posix(_)
as_posix(rel) ==
    IF rel = << >> THEN << >>
    ELSE IF Len(rel) = 1 THEN rel[1]
    ELSE rel[1] \o << "/" >> \o as_posix(Tail(rel))

\* str.split("/") without the empty parts: the parts pathlib keeps of a pattern.
RECURSIVE SplitParts(_, _)
SplitParts(s, acc) ==
    IF s = << >> THEN (IF acc = << >> THEN << >> ELSE << acc >>)
    ELSE IF Head(s) = "/"
         THEN (IF acc = << >> THEN << >> ELSE << acc >>) \o SplitParts(Tail(s), << >>)
         ELSE SplitParts(Tail(s), Append(acc, Head(s)))

\* Index of the last "." of a name, 0 when there is none (str.rfind, 1-based).
RECURSIVE LastDot(_, _)
LastDot(name, i) ==
    IF i = 0 THEN 0
    ELSE IF name[i] = "." THEN i
    ELSE LastDot(name, i - 1)

\* PurePath.suffix: the last dot and what follows it, unless the dot is the
\* first or the last character of the name.
PathSuffix(name) ==
    LET i == LastDot(name, Len(name))
    IN  IF 1 < i /\ i < Len(name) THEN SubSeq(name, i, Len(name)) ELSE << >>

\* fnmatch.fnmatchcase restricted to literal characters and "*".
RECURSIVE fnmatchcase(_, _)
fnmatchcase(name, pat) ==
    IF pat = << >> THEN name = << >>
    ELSE IF Head(pat) = "*"
         THEN \/ fnmatchcase(name, Tail(pat))
              \/ (name # << >> /\ fnmatchcase(Tail(name), pat))
         ELSE /\ name # << >>
              /\ Head(name) = Head(pat)
              /\ fnmatchcase(Tail(name), Tail(pat))

\* The parts of a sequence in reverse order.
RECURSIVE Reverse(_)
Reverse(s) == IF s = << >> THEN << >> ELSE Append(Reverse(Tail(s)), Head(s))

\* PurePath.match (Python 3.11) of a relative path against a pattern string:
\* an absolute pattern never matches a relative path; a relative pattern is
\* matched part by part from the right, and may be shorter than the path.
PathMatch(rel, pattern) ==
    LET pat_parts == SplitParts(pattern, << >>)
        rp == Reverse(rel)
        pp == Reverse(pat_parts)
    IN  /\ pattern # << >>
        /\ Head(pattern) # "/"
        /\ Len(pat_parts) <= Len(rel)
        /\ \A i \in 1..Len(pp) : fnmatchcase(rp[i], pp[i])

(***************************************************************************)
(* The directory tree under the root                                       *)
(***************************************************************************)

N_a       == << "a" >>
N_sub     == << "s", "u", "b" >>
N_build   == << "b", "u", "i", "l", "d" >>
N_b_txt   == << "b", ".", "t", "x", "t" >>
N_s_key   == << "s", ".", "k", "e", "y" >>
N_x_py    == << "x", ".", "p", "y" >>
N_y_py    == << "y", ".", "p", "y" >>
N_out_txt == << "o", "u", "t", ".", "t", "x", "t" >>

\* Directories and files that may exist below the root, as relative paths.
DirPaths  == { << N_a >>, << N_a, N_sub >>, << N_build >> }
FilePaths ==
    { << N_b_txt >>, << N_s_key >>, << N_a, N_x_py >>,
      << N_a, N_sub, N_y_py >>, << N_build, N_out_txt >> }
AllPaths  == DirPaths \cup FilePaths

Root == << >>

Parent(p) == SubSeq(p, 1, Len(p) - 1)
Name(p)   == p[Len(p)]

\* q lies strictly below p.
IsBelow(q, p) == Len(q) > Len(p) /\ SubSeq(q, 1, Len(p)) = p

\* Sizes in bytes.
MB == 1024 * 1024

\* A regular text file of 50 bytes, readable, without a NUL byte.
PlainFile == [kind |-> "file", size |-> 50, nulAt |-> 0, readable |-> TRUE]
PlainDir  == [kind |-> "dir",  size |-> 0,  nulAt |-> 0, readable |-> TRUE]

\* The full tree, every file a plain text file.
FullFs == [p \in AllPaths |-> IF p \in DirPaths THEN PlainDir ELSE PlainFile]

\* Path.exists / Path.is_dir / Path.is_file on a snapshot f of the file system
\* (each returns False for a path that is not there).
Exists(f, p) == p = Root \/ p \in DOMAIN f
is_dir(f, p)  == p = Root \/ (p \in DOMAIN f /\ f[p].kind = "dir")
is_file(f, p) == p \in DOMAIN f /\ f[p].kind = "file"

\* The names directly inside directory d.
Children(f, d) == { p \in DOMAIN f : Len(p) = Len(d) + 1 /\ Parent(p) = d }

\* The file system after path p, and everything below it, is removed.
RemoveTree(f, p) == [q \in { r \in DOMAIN f : r # p /\ ~IsBelow(r, p) } |-> f[q]]

(***************************************************************************)
(* stitcher.py: the filters                                                *)
(***************************************************************************)

\* is_text_file, the size ceiling above which a file is not sniffed.
SniffCeiling == 50 * MB
\* write_markdown, the size above which a file is skipped early.
EarlySkipSize == 10 * MB
\* is_text_file(path, blocksize=512): how many bytes are sampled.
ReadSize(file_size) ==
    LET m == IF 512 < file_size THEN 512 ELSE file_size
    IN  IF m < 1024 THEN m ELSE 1024

\* is_text_file: stat (OSError when the path is gone), the ceiling, the empty
\* file, then open (PermissionError when unreadable) and the NUL test on the
\* sample.  nulAt is the offset (from 1) of the first NUL byte, 0 for none.
is_text_file(f, p) ==
    IF ~is_file(f, p) THEN FALSE
    ELSE IF f[p].size > SniffCeiling THEN FALSE
    ELSE IF f[p].size = 0 THEN TRUE
    ELSE IF ~f[p].readable THEN FALSE
    ELSE ~(f[p].nulAt >= 1 /\ f[p].nulAt <= ReadSize(f[p].size))

\* One line of .gitignore against a relative path, as pathspec's gitwildmatch
\* does it for a line without "/" other than a trailing one and without "!":
\* blank lines and comments match nothing; "name" matches a path one of whose
\* parts matches, the path itself included; "name/" matches only what lies
\* below such a part, so never the directory's own path without a final "/".
GitWildMatchLine(line, rel) ==
    IF line = << >> \/ Head(line) = "#" THEN FALSE
    ELSE LET dirOnly == line[Len(line)] = "/"
             glob    == IF dirOnly THEN SubSeq(line, 1, Len(line) - 1) ELSE line
             upTo    == IF dirOnly THEN Len(rel) - 1 ELSE Len(rel)
         IN  \E i \in 1..upTo : fnmatchcase(rel[i], glob)

\* PathSpec.match_file: some line matches (the inputs hold no negation).
match_file(lines, rel) == \E i \in 1..Len(lines) : GitWildMatchLine(lines[i], rel)

\* any(rel.match(pat) for pat in pats)
AnyMatch(rel, pats) == \E i \in 1..Len(pats) : PathMatch(rel, pats[i])

\* is_ignored_path, the exclude patterns (checked first).
ExcludeHit(c, rel) == AnyMatch(rel, c.exclude)

\* is_ignored_path, the extension test.
ExtensionHit(c, path) == PathSuffix(Name(path)) \in c.ignore_extensions

\* is_ignored_path, the include list: a miss ignores directories and files alike.
IncludeMiss(c, rel) == c.include # << >> /\ ~AnyMatch(rel, c.include)

\* is_ignored_path, the version control layer: with the queried set, a file is
\* ignored when absent from it and a directory falls through; with the parsed
\* ignore file, the patterns decide.
VcsHit(f, c, allowed, ps, path) ==
    /\ c.respect_gitignore
    /\ IF allowed.some /\ is_file(f, path)
       THEN path \notin allowed.set
       ELSE ps.some /\ match_file(ps.lines, path)

\* is_ignored_path with the include list consulted before the exclude patterns:
\* a path that an include pattern matches is no longer held back by an exclude.
is_ignored_path_IncludeFirst(f, c, allowed, ps, path) ==
    IF c.include # << >> /\ AnyMatch(path, c.include)
    THEN ExtensionHit(c, path) \/ VcsHit(f, c, allowed, ps, path)
    ELSE \/ ExcludeHit(c, path)
         \/ ExtensionHit(c, path)
         \/ IncludeMiss(c, path)
         \/ VcsHit(f, c, allowed, ps, path)

\* is_ignored_path(path, cfg, allowed_by_git, pspec)
is_ignored_path(f, c, allowed, ps, path) ==
    \/ ExcludeHit(c, path)
    \/ ExtensionHit(c, path)
    \/ IncludeMiss(c, path)
    \/ VcsHit(f, c, allowed, ps, path)

\* should_include
should_include(f, c, allowed, ps, path) == ~is_ignored_path(f, c, allowed, ps, path)

\* lang_from_suffix
lang_from_suffix(path) ==
    LET s == PathSuffix(Name(path))
    IN  IF s = << >> THEN << "t", "e", "x", "t" >> ELSE Tail(s)

(***************************************************************************)
(* Orderings and listings                                                  *)
(***************************************************************************)

\* sorted(filenames): the paths of S (siblings) in increasing order of name.
RECURSIVE SortedByName(_)
SortedByName(S) ==
    IF S = {} THEN << >>
    ELSE LET m == CHOOSE x \in S : \A y \in S \ {x} : StrLess(Name(x), Name(y))
         IN  << m >> \o SortedByName(S \ {m})

\* The sort key of tree.py: (p.is_file(), p.name); False sorts before True.
TreeKeyLess(f, p, q) ==
    IF is_file(f, p) = is_file(f, q) THEN StrLess(Name(p), Name(q))
    ELSE ~is_file(f, p)

\* sorted(dir_path.iterdir(), key=lambda p: (p.is_file(), p.name))
RECURSIVE SortedForTree(_, _)
SortedForTree(f, S) ==
    IF S = {} THEN << >>
    ELSE LET m == CHOOSE x \in S : \A y \in S \ {x} : TreeKeyLess(f, x, y)
         IN  << m >> \o SortedForTree(f, S \ {m})

\* Every order in which scandir may hand out the members of S.
Orders(S) ==
    { s \in [1..Cardinality(S) -> S] : \A i, j \in DOMAIN s : i # j => s[i] # s[j] }

(***************************************************************************)
(* Bounds                                                                  *)
(***************************************************************************)

\* The largest tree_depth a configuration sets (0 is unlimited).
MaxTreeDepth == 2
\* How many times the program is run over the same tree.
MaxRuns == 2
\* How many paths another process may remove while a run is under way.
MaxRemovals == 1

(***************************************************************************)
(* State                                                                   *)
(***************************************************************************)

VARIABLES
    fs,             \* the file system below the root: path -> attributes
    cfg,            \* the Config handed to write_markdown
    env,            \* what surrounds the run: git, .gitignore, pathspec
    pc,             \* where the run is
    run,            \* which run this is
    prev,           \* the document the previous run wrote
    removed,        \* how many paths were removed during the runs so far
    allowed_by_git, \* write_markdown's allowed_by_git (Optional[set])
    pspec,          \* write_markdown's pspec (Optional[PathSpec])
    gitCalls,       \* how often this run invoked git
    lines,          \* build_ascii_tree's lines
    prefix_stack,   \* build_ascii_tree's prefix_stack
    stack,          \* the frames of walk(), innermost first
    pending,        \* the call of walk() about to start
    todo,           \* the directories os.walk has still to yield
    files,          \* sorted(filenames) of the current directory, still to do
    out,            \* what was written to the output file so far
    destExists,     \* whether a file is at the output path
    error,          \* the exception that ended the run, "none" otherwise
    reported        \* whether main printed "Wrote ..."

vars ==
    << fs, cfg, env, pc, run, prev, removed, allowed_by_git, pspec, gitCalls,
       lines, prefix_stack, stack, pending, todo, files, out, destExists,
       error, reported >>

None == [some |-> FALSE, set |-> {}, lines |-> << >>]
NoCall == [some |-> FALSE, dir |-> Root, depth |-> 0]

\* One piece of the written document.
Chunk(t, path, lang, ls) == [t |-> t, path |-> path, lang |-> lang, lines |-> ls]
Text(t) == Chunk(t, << >>, << >>, << >>)

\* The heading of file p was written in this run.
Written(p) == \E i \in 1..Len(out) : out[i].t = "heading" /\ out[i].path = as_posix(p)

(***************************************************************************)
(* stitcher.py: resolving the version control ignores                      *)
(***************************************************************************)

\* What git itself ignores: the rules of the root .gitignore.
GitIgnores(e, p) == e.gitignore.some /\ match_file(e.gitignore.lines, p)

\* _git_non_ignored_files answering a failed call with the empty set, not None.
git_non_ignored_files_EmptyOnError(f, e) ==
    IF ~e.dotgit THEN None
    ELSE IF ~e.gitexe THEN None
    ELSE IF ~e.gitok THEN [some |-> TRUE, set |-> {}, lines |-> << >>]
    ELSE [some |-> TRUE,
          set |-> { p \in DOMAIN f : f[p].kind = "file" /\ ~GitIgnores(e, p) },
          lines |-> << >>]

\* _git_non_ignored_files: None without .git, without the executable, or when
\* the call raises; otherwise the files git lists as not ignored.
git_non_ignored_files(f, e) ==
    IF ~e.dotgit THEN None
    ELSE IF ~e.gitexe THEN None
    ELSE IF ~e.gitok THEN None
    ELSE [some |-> TRUE,
          set |-> { p \in DOMAIN f : f[p].kind = "file" /\ ~GitIgnores(e, p) },
          lines |-> << >>]

\* _pathspec_from_gitignore: None without the pathspec library or without a
\* root .gitignore; otherwise the compiled lines.
pathspec_from_gitignore(e) ==
    IF ~e.pathspec THEN None
    ELSE IF ~e.gitignore.some THEN None
    ELSE [some |-> TRUE, set |-> {}, lines |-> e.gitignore.lines]

\* write_markdown: allowed_by_git = ... if cfg.respect_gitignore else None
ResolveAllowed(f, c, e) ==
    IF c.respect_gitignore THEN git_non_ignored_files(f, e) ELSE None

\* write_markdown: pspec = ... if (allowed_by_git is None and cfg.respect_gitignore) else None
ResolvePspec(c, e, allowed) ==
    IF ~allowed.some /\ c.respect_gitignore THEN pathspec_from_gitignore(e) ELSE None

\* Whether _git_non_ignored_files reaches subprocess.check_output.
InvokesGit(c, e) == c.respect_gitignore /\ e.dotgit /\ e.gitexe

(***************************************************************************)
(* Inputs                                                                  *)
(***************************************************************************)

Pat_key    == << "*", ".", "k", "e", "y" >>
Pat_py     == << "*", ".", "p", "y" >>
Pat_a_star == << "a", "/", "*" >>
Ext_txt    == << ".", "t", "x", "t" >>
Line_build_slash == << "b", "u", "i", "l", "d", "/" >>
Line_txt   == << "*", ".", "t", "x", "t" >>

ExcludeLists == { << >>, << Pat_key >>, << N_build >>, << Pat_a_star >> }
IncludeLists == { << >>, << Pat_py >>, << Pat_key, Pat_py >> }
ExtensionSets == { {}, { Ext_txt } }
GitignoreFiles ==
    { [some |-> FALSE, lines |-> << >>],
      [some |-> TRUE, lines |-> << Line_build_slash >>],
      [some |-> TRUE, lines |-> << N_build >>],
      [some |-> TRUE, lines |-> << Line_txt >>] }

\* What the file b.txt may be.
FileVariants ==
    { PlainFile,
      [PlainFile EXCEPT !.size = 0],
      [PlainFile EXCEPT !.size = 0, !.readable = FALSE],
      [PlainFile EXCEPT !.nulAt = 10],
      [PlainFile EXCEPT !.size = 4096, !.nulAt = 2000],
      [PlainFile EXCEPT !.size = 200000],
      [PlainFile EXCEPT !.size = EarlySkipSize + 1],
      [PlainFile EXCEPT !.size = SniffCeiling + 1],
      [PlainFile EXCEPT !.readable = FALSE] }

DefaultCfg ==
    [exclude |-> << >>, include |-> << >>, ignore_extensions |-> {},
     respect_gitignore |-> FALSE, tree_depth |-> 0, include_tree |-> TRUE,
     fence_language_from_extension |-> TRUE]

NoVcsEnv ==
    [dotgit |-> FALSE, gitexe |-> FALSE, gitok |-> FALSE,
     gitignore |-> [some |-> FALSE, lines |-> << >>], pathspec |-> FALSE,
     maxRuns |-> 1, maxRemove |-> 0]

\* The state write_markdown starts a run in.
RunStart ==
    /\ pc = "start"
    /\ allowed_by_git = None
    /\ pspec = None
    /\ gitCalls = 0
    /\ lines = << >>
    /\ prefix_stack = << >>
    /\ stack = << >>
    /\ pending = NoCall
    /\ todo = << >>
    /\ files = << >>
    /\ out = << >>
    /\ destExists = FALSE
    /\ error = "none"
    /\ reported = FALSE

\* Runs that differ in the filters and in what b.txt is; version control off.
InitFilters ==
    /\ \E v \in FileVariants : fs = [FullFs EXCEPT ![<< N_b_txt >>] = v]
    /\ \E ex \in ExcludeLists, inc \in IncludeLists, ext \in ExtensionSets,
          d \in 0..MaxTreeDepth, t \in BOOLEAN :
          cfg = [DefaultCfg EXCEPT !.exclude = ex, !.include = inc,
                                   !.ignore_extensions = ext,
                                   !.tree_depth = d, !.include_tree = t]
    /\ env = NoVcsEnv

\* Runs that differ in what git, .gitignore and pathspec offer.
InitVcs ==
    /\ fs = FullFs
    /\ \E ex \in { << >>, << Pat_key >> }, inc \in { << >>, << Pat_py >> },
          r \in BOOLEAN :
          cfg = [DefaultCfg EXCEPT !.exclude = ex, !.include = inc,
                                   !.respect_gitignore = r]
    /\ \E dg \in BOOLEAN, ge \in BOOLEAN, gk \in BOOLEAN,
          gi \in GitignoreFiles, ps \in BOOLEAN :
          env = [NoVcsEnv EXCEPT !.dotgit = dg, !.gitexe = ge, !.gitok = gk,
                                 !.gitignore = gi, !.pathspec = ps]

\* Runs during which paths disappear, and repeated runs over the same tree.
InitFaults ==
    /\ \E v \in { PlainDir, [PlainDir EXCEPT !.readable = FALSE] } :
          fs = [FullFs EXCEPT ![<< N_a >>] = v]
    /\ cfg = DefaultCfg
    /\ \E rm \in { 0, MaxRemovals } :
          env = [NoVcsEnv EXCEPT !.maxRuns = MaxRuns, !.maxRemove = rm]

Init ==
    /\ InitFilters \/ InitVcs \/ InitFaults
    /\ run = 1
    /\ prev = << >>
    /\ removed = 0
    /\ RunStart

(***************************************************************************)
(* write_markdown, step by step                                            *)
(***************************************************************************)

\* The depth test off by one: one more level is expanded.
DepthExceeded_OffByOne(c, depth) == c.tree_depth # 0 /\ depth > c.tree_depth + 1

\* tree.py: if max_depth and depth > max_depth: return
DepthExceeded(c, depth) == c.tree_depth # 0 /\ depth > c.tree_depth

\* write_markdown's is_dir_ignored
is_dir_ignored(p) == is_ignored_path(fs, cfg, allowed_by_git, pspec, p)

\* One line of the tree: "".join(prefix_stack) + branch + label.  path is the
\* entry the line stands for.
TreeLine(prefix, branch, p, ignored) ==
    [prefix |-> prefix, branch |-> branch,
     label |-> IF p = Root THEN << >> ELSE Name(p),
     ignored |-> ignored, path |-> p]

\* The nesting depth of a tree line: children of the root are at depth 1.
LineDepth(l) == IF l.path = Root THEN 0 ELSE Len(l.prefix) + 1

\* Lines 115-119: resolve the version control ignores.
ResolveVcs ==
    /\ pc = "start"
    /\ allowed_by_git' = ResolveAllowed(fs, cfg, env)
    /\ pspec' = ResolvePspec(cfg, env, allowed_by_git')
    /\ gitCalls' = gitCalls + (IF InvokesGit(cfg, env) THEN 1 ELSE 0)
    /\ pc' = "open"
    /\ UNCHANGED << fs, cfg, env, run, prev, removed, lines, prefix_stack, stack,
                    pending, todo, files, out, destExists, error, reported >>

\* Line 125: cfg.output.open("w") creates the (empty) output file.
OpenOutput ==
    /\ pc = "open"
    /\ destExists' = TRUE
    /\ out' = << >>
    /\ pc' = "head"
    /\ UNCHANGED << fs, cfg, env, run, prev, removed, allowed_by_git, pspec,
                    gitCalls, lines, prefix_stack, stack, pending, todo, files,
                    error, reported >>

\* Line 125 raising OSError: nothing is created, the exception leaves main.
OpenFails ==
    /\ pc = "open"
    /\ pc' = "failed"
    /\ error' = "OSError:open"
    /\ UNCHANGED << fs, cfg, env, run, prev, removed, allowed_by_git, pspec,
                    gitCalls, lines, prefix_stack, stack, pending, todo, files,
                    out, destExists, reported >>

\* Lines 126-129: preamble and title; then the tree, or straight to os.walk.
WriteHeader ==
    /\ pc = "head"
    /\ out' = out \o << Text("preamble"), Text("title") >>
    /\ IF cfg.include_tree
       THEN /\ pc' = "tree"
            /\ lines' = << TreeLine(<< >>, "", Root, FALSE) >>
            /\ pending' = [some |-> TRUE, dir |-> Root, depth |-> 1]
            /\ todo' = todo
       ELSE /\ pc' = "walk"
            /\ todo' = << Root >>
            /\ UNCHANGED << lines, pending >>
    /\ UNCHANGED << fs, cfg, env, run, prev, removed, allowed_by_git, pspec,
                    gitCalls, prefix_stack, stack, files, destExists, error,
                    reported >>

\* What the caller does when walk(entry, depth + 1) returns: prefix_stack.pop().
AfterReturn(callers) ==
    IF callers = << >> THEN prefix_stack
    ELSE SubSeq(prefix_stack, 1, Len(prefix_stack) - 1)

\* tree.py lines 11-16: walk() starts: the depth test, then iterdir.  Only
\* PermissionError is caught; a directory that is gone raises
\* FileNotFoundError, which leaves build_ascii_tree, write_markdown and main.
TreeCall ==
    /\ pc = "tree"
    /\ pending.some
    /\ pending' = NoCall
    /\ IF DepthExceeded(cfg, pending.depth)
       THEN /\ prefix_stack' = AfterReturn(stack)
            /\ UNCHANGED << stack, pc, error >>
       ELSE IF ~is_dir(fs, pending.dir)
       THEN /\ pc' = "failed"
            /\ error' = "FileNotFoundError:iterdir"
            /\ UNCHANGED << stack, prefix_stack >>
       ELSE IF pending.dir # Root /\ ~fs[pending.dir].readable
       THEN /\ prefix_stack' = AfterReturn(stack)
            /\ UNCHANGED << stack, pc, error >>
       ELSE /\ stack' =
                << [dir |-> pending.dir,
                    entries |-> SortedForTree(fs, Children(fs, pending.dir)),
                    i |-> 1, depth |-> pending.depth] >> \o stack
            /\ UNCHANGED << prefix_stack, pc, error >>
    /\ UNCHANGED << fs, cfg, env, run, prev, removed, allowed_by_git, pspec,
                    gitCalls, lines, todo, files, out, destExists, reported >>

\* tree.py lines 17-27: one turn of the loop over the entries.
TreeEntry ==
    /\ pc = "tree"
    /\ ~pending.some
    /\ stack # << >>
    /\ Head(stack).i <= Len(Head(stack).entries)
    /\ LET fr      == Head(stack)
           entry   == fr.entries[fr.i]
           is_last == fr.i = Len(fr.entries)
           branch  == IF is_last THEN "L-- " ELSE "|-- "
           ignored == is_dir(fs, entry) /\ is_dir_ignored(entry)
       IN  /\ lines' = Append(lines, TreeLine(prefix_stack, branch, entry, ignored))
           /\ stack' = << [fr EXCEPT !.i = fr.i + 1] >> \o Tail(stack)
           /\ IF is_dir(fs, entry) /\ ~ignored
              THEN /\ prefix_stack' =
                        Append(prefix_stack, IF is_last THEN "    " ELSE "|   ")
                   /\ pending' = [some |-> TRUE, dir |-> entry, depth |-> fr.depth + 1]
              ELSE UNCHANGED << prefix_stack, pending >>
    /\ UNCHANGED << fs, cfg, env, pc, run, prev, removed, allowed_by_git, pspec,
                    gitCalls, todo, files, out, destExists, error, reported >>

\* The loop over the entries is over: walk() returns to its caller.
TreeReturn ==
    /\ pc = "tree"
    /\ ~pending.some
    /\ stack # << >>
    /\ Head(stack).i > Len(Head(stack).entries)
    /\ stack' = Tail(stack)
    /\ prefix_stack' = AfterReturn(Tail(stack))
    /\ UNCHANGED << fs, cfg, env, pc, run, prev, removed, allowed_by_git, pspec,
                    gitCalls, lines, pending, todo, files, out, destExists,
                    error, reported >>

\* stitcher.py lines 130-133: the tree block and the legend are written.
WriteTree ==
    /\ pc = "tree"
    /\ ~pending.some
    /\ stack = << >>
    /\ out' = out \o << Text("tree_open"), Chunk("tree", << >>, << >>, lines),
                        Text("tree_close"), Text("legend") >>
    /\ todo' = << Root >>
    /\ pc' = "walk"
    /\ UNCHANGED << fs, cfg, env, run, prev, removed, allowed_by_git, pspec,
                    gitCalls, lines, prefix_stack, stack, pending, files,
                    destExists, error, reported >>

\* os.walk yields the next directory: scandir (a directory that is gone or
\* unreadable yields nothing, the error is swallowed), the subdirectories in
\* the order scandir gave them, the file names, which line 136 sorts.
WalkDir ==
    /\ pc = "walk"
    /\ todo # << >>
    /\ LET d == Head(todo)
       IN  IF ~is_dir(fs, d) \/ (d # Root /\ ~fs[d].readable)
           THEN /\ todo' = Tail(todo)
                /\ UNCHANGED << files, pc >>
           ELSE \E order \in Orders({ p \in Children(fs, d) : is_dir(fs, p) }) :
                    /\ todo' = order \o Tail(todo)
                    /\ files' = SortedByName({ p \in Children(fs, d) : ~is_dir(fs, p) })
                    /\ pc' = IF files' = << >> THEN "walk" ELSE "file"
    /\ UNCHANGED << fs, cfg, env, run, prev, removed, allowed_by_git, pspec,
                    gitCalls, lines, prefix_stack, stack, pending, out,
                    destExists, error, reported >>

\* The skip test without the call of is_text_file.
Skipped_NoSniff(f, c, allowed, ps, p) ==
    \/ ~Exists(f, p)
    \/ f[p].size > EarlySkipSize
    \/ ~should_include(f, c, allowed, ps, p)

\* Lines 139-149: whether the file at the head of the list is skipped.
Skipped(f, c, allowed, ps, p) ==
    \/ ~Exists(f, p)
    \/ f[p].size > EarlySkipSize
    \/ ~is_text_file(f, p)
    \/ ~should_include(f, c, allowed, ps, p)

\* Lines 137-155: the next file is skipped, or its heading and the opening
\* fence are written.
FileCheck ==
    /\ pc = "file"
    /\ LET p == Head(files)
       IN  IF Skipped(fs, cfg, allowed_by_git, pspec, p)
           THEN /\ files' = Tail(files)
                /\ pc' = IF files' = << >> THEN "walk" ELSE "file"
                /\ out' = out
           ELSE /\ out' = out \o
                     << Chunk("heading", as_posix(p), << >>, << >>),
                        Chunk("fence", << >>,
                              IF cfg.fence_language_from_extension
                              THEN lang_from_suffix(p) ELSE << >>, << >>) >>
                /\ pc' = "body"
                /\ files' = files
    /\ UNCHANGED << fs, cfg, env, run, prev, removed, allowed_by_git, pspec,
                    gitCalls, lines, prefix_stack, stack, pending, todo,
                    destExists, error, reported >>

\* Lines 157-166: the content (cut at 100000 characters), or the placeholder
\* when read_text raises OSError; then the closing fence.
FileBody ==
    /\ pc = "body"
    /\ LET p == Head(files)
           body == IF ~is_file(fs, p) \/ ~fs[p].readable
                   THEN Text("(Error reading file)")
                   ELSE IF fs[p].size > 100000
                   THEN Chunk("content_truncated", as_posix(p), << >>, << >>)
                   ELSE Chunk("content", as_posix(p), << >>, << >>)
       IN  out' = out \o << body, Text("fence_close") >>
    /\ files' = Tail(files)
    /\ pc' = IF files' = << >> THEN "walk" ELSE "file"
    /\ UNCHANGED << fs, cfg, env, run, prev, removed, allowed_by_git, pspec,
                    gitCalls, lines, prefix_stack, stack, pending, todo,
                    destExists, error, reported >>

\* os.walk is exhausted: the with block closes the file, write_markdown returns.
CloseOutput ==
    /\ pc = "walk"
    /\ todo = << >>
    /\ pc' = "written"
    /\ UNCHANGED << fs, cfg, env, run, prev, removed, allowed_by_git, pspec,
                    gitCalls, lines, prefix_stack, stack, pending, todo, files,
                    out, destExists, error, reported >>

\* cli.py lines 192-193: print(f"Wrote {cfg.output}"); return 0
ReportSuccess ==
    /\ pc = "written"
    /\ reported' = TRUE
    /\ pc' = "done"
    /\ UNCHANGED << fs, cfg, env, run, prev, removed, allowed_by_git, pspec,
                    gitCalls, lines, prefix_stack, stack, pending, todo, files,
                    out, destExists, error >>

\* Where the next thing write_markdown does is a write to the output file.
AboutToWrite ==
    \/ pc \in { "head", "file", "body" }
    \/ (pc = "tree" /\ ~pending.some /\ stack = << >>)
    \/ (pc = "walk" /\ todo = << >>)

\* A write (or the closing flush) raises OSError: the with block closes the
\* file and the exception leaves write_markdown and main.  What was written
\* stays at the output path.
WriteFails ==
    /\ AboutToWrite
    /\ pc' = "failed"
    /\ error' = "OSError:write"
    /\ UNCHANGED << fs, cfg, env, run, prev, removed, allowed_by_git, pspec,
                    gitCalls, lines, prefix_stack, stack, pending, todo, files,
                    out, destExists, reported >>

\* Another process removes a path, with all below it, while the run is under way.
Remove ==
    /\ pc \in { "tree", "walk", "file", "body" }
    /\ removed < env.maxRemove
    /\ \E p \in DOMAIN fs : fs' = RemoveTree(fs, p)
    /\ removed' = removed + 1
    /\ UNCHANGED << cfg, env, pc, run, prev, allowed_by_git, pspec, gitCalls,
                    lines, prefix_stack, stack, pending, todo, files, out,
                    destExists, error, reported >>

\* The program is run again over the tree as it is, with the same configuration
\* (main picks a fresh output path: next_free_path).
Rerun ==
    /\ pc = "done"
    /\ run < env.maxRuns
    /\ run' = run + 1
    /\ prev' = out
    /\ pc' = "start"
    /\ allowed_by_git' = None
    /\ pspec' = None
    /\ gitCalls' = 0
    /\ lines' = << >>
    /\ prefix_stack' = << >>
    /\ stack' = << >>
    /\ pending' = NoCall
    /\ todo' = << >>
    /\ files' = << >>
    /\ out' = << >>
    /\ destExists' = FALSE
    /\ error' = "none"
    /\ reported' = FALSE
    /\ UNCHANGED << fs, cfg, env, removed >>

Next ==
    \/ ResolveVcs
    \/ OpenOutput
    \/ OpenFails
    \/ WriteHeader
    \/ TreeCall
    \/ TreeEntry
    \/ TreeReturn
    \/ WriteTree
    \/ WalkDir
    \/ FileCheck
    \/ FileBody
    \/ CloseOutput
    \/ ReportSuccess
    \/ WriteFails
    \/ Remove
    \/ Rerun

Spec == Init /\ [][Next]_vars

(***************************************************************************)
(* Properties                                                              *)
(***************************************************************************)

\* The indices of the headings in the written document.
Headings == { i \in 1..Len(out) : out[i].t = "heading" }

\* The tree was rendered in this run and the content pass is over.
RunComplete == pc = "done"

\* The tree line of path p is there and carries the " *" marker.
MarkedIgnored(p) == \E i \in 1..Len(lines) : lines[i].path = p /\ lines[i].ignored

\* Some tree line stands for a path below d.
TreeShowsBelow(d) == \E i \in 1..Len(lines) : IsBelow(lines[i].path, d)

\* Some file below d has its heading in the content section.
ContentShowsBelow(d) == \E p \in FilePaths : IsBelow(p, d) /\ Written(p)

\* C1: pruning is absolute: below a directory whose tree line carries the
\* ignored marker, nothing appears in the tree and no file appears in the
\* content section.
C1_PruningAbsolute ==
    \A d \in DirPaths :
        MarkedIgnored(d) => ~TreeShowsBelow(d) /\ ~ContentShowsBelow(d)

\* C2: exclude always wins: a path matching an exclude pattern is ignored by
\* is_ignored_path whatever the include list, the extension set and the
\* version control state are, and a file matching an exclude pattern never
\* gets a heading in the content section.
C2_ExcludeWins ==
    \A p \in AllPaths :
        ExcludeHit(cfg, p) =>
            /\ is_ignored_path(fs, cfg, allowed_by_git, pspec, p)
            /\ ~Written(p)

\* C2 witness: a finished run that left out a text file matched by an exclude
\* and by an include pattern, and wrote another file.
C2_Witness ==
    /\ RunComplete
    /\ \E p \in FilePaths :
          /\ ExcludeHit(cfg, p)
          /\ AnyMatch(p, cfg.include)
          /\ is_text_file(fs, p)
          /\ ~Written(p)
    /\ Headings # {}

\* Every tree line, in build_ascii_tree's list and in the written tree block,
\* is at nesting depth at most n.
TreeWithin(n) ==
    /\ \A i \in 1..Len(lines) : LineDepth(lines[i]) <= n
    /\ \A k \in 1..Len(out) :
          \A i \in 1..Len(out[k].lines) : LineDepth(out[k].lines[i]) <= n

C4_LexicographicOrder ==
    \A i, j \in Headings : i < j => StrLess(out[i].path, out[j].path)

\* C5: a second run over the unchanged tree with the same configuration writes
\* the same document as the first, whatever order scandir enumerates in.
C5_Deterministic ==
    (run > 1 /\ RunComplete /\ removed = 0) => out = prev

\* A line of the root .gitignore names a part of path d (with or without a
\* trailing "/"): git ignores the directory d.
GitRuleIgnoresDir(d) ==
    /\ env.gitignore.some
    /\ \E k \in 1..Len(env.gitignore.lines) :
          LET line == env.gitignore.lines[k]
              glob == IF line[Len(line)] = "/"
                      THEN SubSeq(line, 1, Len(line) - 1) ELSE line
          IN  \E i \in 1..Len(d) : fnmatchcase(d[i], glob)

\* C6: with respect-VCS-ignores on and either resolution strategy in force, a
\* directory the .gitignore rules ignore is listed in the tree with the
\* ignored marker and nothing below it is in the tree or the content section.
C6_VcsIgnoredDirectory ==
    \A d \in DirPaths :
        ( /\ cfg.respect_gitignore
          /\ allowed_by_git.some \/ pspec.some
          /\ GitRuleIgnoresDir(d)
          /\ cfg.include_tree
          /\ pc \in { "walk", "file", "body", "written", "done" }
          /\ removed = 0
          /\ \E i \in 1..Len(lines) : lines[i].path = d )
        => /\ MarkedIgnored(d)
           /\ ~TreeShowsBelow(d)
           /\ ~ContentShowsBelow(d)

\* The query of git did not produce a set: no .git, no executable, or the
\* call raised.
VcsQueryFailed == ~(env.dotgit /\ env.gitexe /\ env.gitok)

\* The version control layer ignores nothing.
VcsIgnoresNothing ==
    \A p \in AllPaths : ~VcsHit(fs, cfg, allowed_by_git, pspec, p)

C8_PerPathRecoverable ==
    pc = "failed" => error \in { "OSError:open", "OSError:write" }

\* C9: when creating or writing the output file fails, the run is not reported
\* as a success and no partly written document is left at the output path.
C9_NoPartialArtifact ==
    (pc = "failed" /\ error \in { "OSError:open", "OSError:write" }) =>
        ~reported /\ ~destExists

\* The version control layer, as resolved, ignores file p.
VcsLayerIgnores(p) ==
    /\ cfg.respect_gitignore
    /\ \/ allowed_by_git.some /\ p \notin allowed_by_git.set
       \/ pspec.some /\ match_file(pspec.lines, p)

\* What every written file satisfies, apart from readability.
PassesLeafFilter(p) ==
    /\ ~ExcludeHit(cfg, p)
    /\ ~VcsLayerIgnores(p)
    /\ cfg.include = << >> \/ AnyMatch(p, cfg.include)
    /\ PathSuffix(Name(p)) \notin cfg.ignore_extensions
    /\ fs[p].size <= SniffCeiling
    /\ ~(fs[p].nulAt >= 1 /\ fs[p].nulAt <= ReadSize(fs[p].size))

=============================================================================
